---- MODULE Spec2Model ----
(***************************************************************************)
(* Model of the playback coordinator of src/App.tsx (playSpeak,            *)
(* stopSpeaking, the fallback pacing interval, the speech-synthesis        *)
(* callbacks and the two effects on isSpeaking) and of normalizeQuizData.  *)
(*                                                                         *)
(* Strings are sequences of one-character strings.  Time is kept as the    *)
(* order in which the pending setTimeout callbacks fall due: `timers' is   *)
(* the list of pending timeouts, earliest first, and a new timeout may be  *)
(* placed anywhere behind the pending ones whose delay is not longer than  *)
(* its own (they were armed earlier, so they fall due earlier).            *)
(***************************************************************************)
EXTENDS Integers, Sequences, FiniteSets, TLC

VARIABLES
    story,                 \* useState story (App.tsx:85), fixed during playback
    isAndroid,             \* /android/i.test(navigator.userAgent) (App.tsx:239)
    isSpeaking,            \* useState isSpeaking (App.tsx:95)
    isSpeakingRef,         \* isSpeakingRef.current (App.tsx:136), set by the effect
    currentWordIndex,      \* useState currentWordIndex (App.tsx:97)
    error,                 \* useState error (App.tsx:91)
    stoppedByUserRef,      \* App.tsx:133
    highlightTimerRef,     \* App.tsx:134, 0 is null, k is the interval of session k
    firstBoundaryHeardRef, \* App.tsx:135
    utteranceRef,          \* App.tsx:132, 0 is null, k is the utterance of session k
    timers,                \* pending setTimeout callbacks, earliest first
    sess,                  \* per playSpeak call: its closure (rate, utterance, interval)
    synth,                 \* window.speechSynthesis: utterances queued, head is spoken
    plays,                 \* number of play requests so far (the latest session)
    stops,                 \* number of stop requests so far
    speaks,                \* number of calls of speechSynthesis.speak so far
    steps,                 \* number of events handled so far
    ev,                    \* the last event handled, see Become
    log,                   \* the calls of setCurrentWordIndex of a followed session
    rawQuiz,               \* result.quiz as generateStoryAndQuiz returned it
    quiz,                  \* useState quiz (App.tsx:86)
    requiz,                \* normalizeQuizData applied to quiz once more
    userAnswers,           \* useState userAnswers (App.tsx:88)
    currentQuestionIndex,  \* useState currentQuestionIndex (App.tsx:89)
    view,                  \* useState view (App.tsx:77)
    retry                  \* a call of fetchWithRetry (part_001:20-44): its locals

vars == <<story, isAndroid, isSpeaking, isSpeakingRef, currentWordIndex, error,
          stoppedByUserRef, highlightTimerRef, firstBoundaryHeardRef, utteranceRef,
          timers, sess, synth, plays, stops, speaks, steps, ev, log, rawQuiz, quiz,
          requiz,
          userAnswers, currentQuestionIndex, view, retry>>

coordVars == <<story, isAndroid, isSpeaking, isSpeakingRef, currentWordIndex, error,
               stoppedByUserRef, highlightTimerRef, firstBoundaryHeardRef,
               utteranceRef, timers, sess, synth, plays, stops, speaks, steps>>

quizVars == <<rawQuiz, quiz, requiz, userAnswers, currentQuestionIndex, view,
              retry>>

-----------------------------------------------------------------------------
(* Bounds of the model *)

MaxPlays == 2
MaxStops == 1
MaxSteps == 7

(* Program constants *)

NULL == -1
SPEAK_DELAY_MS == 60
STOP_GRACE_MS == 120
FALLBACK_DEADLINE_MS == 900

NoError == "null"
MsgCouldNotPlay == "Could not play audio. Your browser may not support this feature."
MsgNotGenerated == "Audio could not be generated. Please try again."

\* playSpeak(1) and playSpeak(0.5), in tenths
Rates == {5, 10}

ErrorKinds == {"interrupted", "canceled", "not-allowed", "language-unavailable",
               "synthesis-failed", "network", "audio-busy"}

\* the kinds the playback specification draws from: the two the handler
\* names and one of the others, which it treats alike
DriverErrors == {"interrupted", "canceled", "network"}

Sessions == 1..MaxPlays

-----------------------------------------------------------------------------
(* Strings *)

IsSpace(c) == c = " "

RECURSIVE SplitWs(_, _, _)
\* text.split(/\s+/).filter(Boolean): the maximal runs of non-whitespace
SplitWs(text, cur, acc) ==
    IF text = <<>>
    THEN IF cur = <<>> THEN acc ELSE Append(acc, cur)
    ELSE IF IsSpace(Head(text))
         THEN SplitWs(Tail(text), <<>>, IF cur = <<>> THEN acc ELSE Append(acc, cur))
         ELSE SplitWs(Tail(text), Append(cur, Head(text)), acc)

Words(text) == SplitWs(text, <<>>, <<>>)

LastChar(w) == IF w = <<>> THEN "" ELSE w[Len(w)]

-----------------------------------------------------------------------------
(* Pacing profile *)

\* a pacing profile whose tick takes nothing off a pause
getMsPerWord_Zero(rate) == 0

getMsPerWord(rate) ==
    IF rate <= 6 THEN 420
    ELSE IF rate < 11 THEN 340
    ELSE 150

PauseMsSentence(rate) == IF rate <= 6 THEN 800 ELSE 400
PauseMsComma(rate) == IF rate <= 6 THEN 200 ELSE 100

\* the pause budget set after advancing to word i (1-based previous word words[i])
PauseAfter(prev, rate) ==
    IF LastChar(prev) \in {".", "!", "?"} THEN PauseMsSentence(rate)
    ELSE IF LastChar(prev) \in {",", ":", ";"} THEN PauseMsComma(rate)
    ELSE 0

-----------------------------------------------------------------------------
(* Timers *)

SpeakTimer(k) == [kind |-> "speak", sid |-> k, click |-> FALSE]
DeadlineTimer(k) == [kind |-> "deadline", sid |-> k, click |-> FALSE]
ResetTimer(byClick) == [kind |-> "reset", sid |-> 0, click |-> byClick]

Delay(t) ==
    IF t.kind = "speak" THEN SPEAK_DELAY_MS
    ELSE IF t.kind = "reset" THEN STOP_GRACE_MS
    ELSE FALLBACK_DEADLINE_MS

Remove(q, t) == SelectSeq(q, LAMBDA x : x # t)

Has(q, t) == \E j \in 1..Len(q) : q[j] = t

\* the timeouts of `fresh' with the given delay, in the order they were armed
OfDelay(fresh, d) == SelectSeq(fresh, LAMBDA x : Delay(x) = d)

\* a cut p of q (new timeouts go behind the first p) is possible for delay d
\* when every pending timeout behind it has a longer delay
CutOk(q, p, d) == \A j \in (p + 1)..Len(q) : Delay(q[j]) > d

\* the cuts a timeout of delay d may take; any, when none is armed
CutsFor(q, fresh, d) ==
    IF OfDelay(fresh, d) = <<>> THEN 0..Len(q)
    ELSE {p \in 0..Len(q) : CutOk(q, p, d)}

\* the cuts for the three delays: timeouts armed in the same task fall due in
\* the order of their delays; a delay with nothing to arm takes the cut
\* before it, so that one outcome is one choice
Cuts(q, fresh) ==
    IF fresh = <<>> THEN {[a |-> 0, b |-> 0, c |-> 0]}
    ELSE {c \in [a : IF OfDelay(fresh, SPEAK_DELAY_MS) = <<>> THEN {0}
                     ELSE CutsFor(q, fresh, SPEAK_DELAY_MS),
                 b : CutsFor(q, fresh, STOP_GRACE_MS),
                 c : CutsFor(q, fresh, FALLBACK_DEADLINE_MS)] :
            /\ c.a <= c.b /\ c.b <= c.c
            /\ (OfDelay(fresh, STOP_GRACE_MS) = <<>> => c.b = c.a)
            /\ (OfDelay(fresh, FALLBACK_DEADLINE_MS) = <<>> => c.c = c.b)}

Merge(q, fresh, c) ==
    SubSeq(q, 1, c.a) \o OfDelay(fresh, SPEAK_DELAY_MS)
    \o SubSeq(q, c.a + 1, c.b) \o OfDelay(fresh, STOP_GRACE_MS)
    \o SubSeq(q, c.b + 1, c.c) \o OfDelay(fresh, FALLBACK_DEADLINE_MS)
    \o SubSeq(q, c.c + 1, Len(q))

-----------------------------------------------------------------------------
(* The state as one record, so that a handler is an operator from state to  *)
(* state.  `fresh' collects the timeouts a handler arms.                    *)

St == [isSpeaking |-> isSpeaking, isSpeakingRef |-> isSpeakingRef,
       currentWordIndex |-> currentWordIndex, error |-> error,
       stoppedByUserRef |-> stoppedByUserRef,
       highlightTimerRef |-> highlightTimerRef,
       firstBoundaryHeardRef |-> firstBoundaryHeardRef,
       utteranceRef |-> utteranceRef, timers |-> timers, sess |-> sess,
       synth |-> synth, plays |-> plays, stops |-> stops, speaks |-> speaks,
       fresh |-> <<>>, wrote |-> <<>>, erred |-> FALSE]

NoSession == [rate |-> 0, utt |-> "none", armed |-> FALSE, i |-> 0,
              remainingPauseMs |-> 0]

\* setCurrentWordIndex(v); `wrote' collects the values a handler sets
setCurrentWordIndex(s, v) ==
    [s EXCEPT !.currentWordIndex = v, !.wrote = Append(@, v)]

\* setError(msg) with a message; `erred' records that a handler called it
setError(s, msg) == [s EXCEPT !.error = msg, !.erred = TRUE]

\* clearInterval(id): the interval of session id no longer fires, and the
\* variables i and remainingPauseMs of its closure are gone with it
clearInterval(s, id) ==
    [s EXCEPT !.sess[id].armed = FALSE, !.sess[id].i = 0,
              !.sess[id].remainingPauseMs = 0]

clearHighlightTimer(s) ==
    IF s.highlightTimerRef # 0
    THEN [clearInterval(s, s.highlightTimerRef) EXCEPT !.highlightTimerRef = 0]
    ELSE s

\* clearTimeout(fallbackTimer) in the closure of session k
clearFallbackTimer(s, k) == [s EXCEPT !.timers = Remove(@, DeadlineTimer(k))]

\* window.speechSynthesis.cancel(): every utterance leaves the queue; the
\* driver may still deliver one end or error callback for each
synthCancel(s) ==
    [s EXCEPT !.synth = <<>>,
              !.sess = [k \in Sessions |->
                          IF Has(s.synth, k) THEN [@[k] EXCEPT !.utt = "cancelled"]
                          ELSE @[k]]]

\* window.speechSynthesis.speak(utterance)
synthSpeak(s, k) ==
    [s EXCEPT !.synth = Append(@, k), !.sess[k].utt = "queued",
              !.speaks = @ + 1]

stopSpeaking(s, byClick) ==
    LET s1 == clearHighlightTimer(synthCancel([s EXCEPT !.stoppedByUserRef = TRUE]))
    IN [setCurrentWordIndex(s1, NULL)
          EXCEPT !.isSpeaking = FALSE,
                 !.error = NoError,
                 !.utteranceRef = 0,
                 !.fresh = Append(@, ResetTimer(byClick))]

\* The commit that follows a handler: the cleanup of the effect of lines
\* 408-412, created by the render in which isSpeaking was true, calls
\* stopSpeaking when isSpeaking has changed; then the effect of lines 138-140
\* copies isSpeaking to isSpeakingRef.
Commit(s) ==
    IF s.isSpeaking = s.isSpeakingRef THEN s
    ELSE IF s.isSpeakingRef
         THEN [stopSpeaking(s, FALSE) EXCEPT !.isSpeakingRef = FALSE]
         ELSE [s EXCEPT !.isSpeakingRef = TRUE]

\* startFallback without line 253: the first word is not highlighted
startFallback_NoFirstIndex(s, k) ==
    [s EXCEPT !.sess[k].i = 0,
              !.sess[k].remainingPauseMs = 0,
              !.sess[k].armed = TRUE,
              !.highlightTimerRef = k]

startFallback(s, k) ==
    [setCurrentWordIndex(s, 0)
       EXCEPT !.sess[k].i = 0,
              !.sess[k].remainingPauseMs = 0,
              !.sess[k].armed = TRUE,
              !.highlightTimerRef = k]

\* the callback of the pacing interval of session k behind its guard (lines
\* 269-301): a pause is counted down, or the next word is highlighted, or
\* the run ends
advance(s, k) ==
    LET words == Words(story)
        msPerWord == getMsPerWord(s.sess[k].rate)
        pause == s.sess[k].remainingPauseMs
        left == pause - msPerWord
        holds == pause > 0 /\ left > 0
        i == s.sess[k].i + 1
    IN IF holds THEN [s EXCEPT !.sess[k].remainingPauseMs = left]
       ELSE IF i >= Len(words)
            THEN [setCurrentWordIndex(
                      clearHighlightTimer([s EXCEPT !.sess[k].i = i,
                                                    !.sess[k].remainingPauseMs = 0]),
                      NULL)
                    EXCEPT !.isSpeaking = FALSE]
            ELSE [setCurrentWordIndex(s, i)
                    EXCEPT !.sess[k].i = i,
                           !.sess[k].remainingPauseMs =
                               PauseAfter(words[i], s.sess[k].rate)]

\* the callback without the test of isSpeakingRef of lines 264-267
tick_Unguarded(s, k) == advance(s, k)

\* the callback of the pacing interval of session k
tick(s, k) ==
    IF ~s.isSpeakingRef THEN clearHighlightTimer(s) ELSE advance(s, k)

playSpeak(s, rate) ==
    IF story = <<>> THEN s
    ELSE LET k == s.plays + 1
             s1 == clearHighlightTimer(synthCancel(
                       [s EXCEPT !.error = NoError, !.stoppedByUserRef = FALSE]))
             s2 == [setCurrentWordIndex(s1, NULL)
                      EXCEPT !.isSpeaking = FALSE,
                              !.firstBoundaryHeardRef = FALSE,
                              !.plays = k,
                              !.sess[k] = [NoSession EXCEPT !.rate = rate,
                                                            !.utt = "pending"]]
         IN IF isAndroid
            THEN [s2 EXCEPT !.fresh = Append(@, SpeakTimer(k))]
            ELSE [s2 EXCEPT !.fresh = Append(Append(@, DeadlineTimer(k)),
                                             SpeakTimer(k))]

\* the deadline callback without the test of line 346
fallbackTimer_Unconditional(s, k) == startFallback(s, k)

\* the callback of the arbitration deadline of session k
fallbackTimer(s, k) ==
    IF ~s.firstBoundaryHeardRef THEN startFallback(s, k) ELSE s

\* the delayed callback of lines 352-405 on every platform: no pacing is
\* started with the utterance
delayedSpeak_NeverPaced(s, k, ok) ==
    IF ok
    THEN [synthSpeak([s EXCEPT !.utteranceRef = k], k) EXCEPT !.isSpeaking = TRUE]
    ELSE [setError(clearFallbackTimer([s EXCEPT !.utteranceRef = k], k),
                   MsgNotGenerated)
            EXCEPT !.isSpeaking = FALSE, !.sess[k].utt = "done"]

\* the delayed callback that issues the utterance; ok is whether speak() returns
delayedSpeak(s, k, ok) ==
    LET s1 == [s EXCEPT !.utteranceRef = k]
    IN IF isAndroid
       THEN IF ok
            THEN startFallback([synthSpeak(s1, k) EXCEPT !.isSpeaking = TRUE], k)
            ELSE [setError(s1, MsgNotGenerated)
                    EXCEPT !.isSpeaking = FALSE, !.sess[k].utt = "done"]
       ELSE IF ok
            THEN [synthSpeak(s1, k) EXCEPT !.isSpeaking = TRUE]
            ELSE [setError(clearFallbackTimer(s1, k), MsgNotGenerated)
                    EXCEPT !.isSpeaking = FALSE, !.sess[k].utt = "done"]

\* the callback that resets the stopped-by-user flag
resetStopped(s) == [s EXCEPT !.stoppedByUserRef = FALSE]

\* the word index of a character offset: the first word whose accumulated
\* length (+1 per word) exceeds the offset, or none (NULL)
RECURSIVE BoundaryScan(_, _, _, _)
BoundaryScan(words, i, count, charIndex) ==
    IF i > Len(words) THEN NULL
    ELSE IF count + Len(words[i]) + 1 > charIndex THEN i - 1
    ELSE BoundaryScan(words, i + 1, count + Len(words[i]) + 1, charIndex)

\* the scan with the first word as the answer when the offset is past the end
BoundaryIndex_FirstWhenPast(words, charIndex) ==
    IF BoundaryScan(words, 1, 0, charIndex) = NULL /\ words # <<>> THEN 0
    ELSE BoundaryScan(words, 1, 0, charIndex)

BoundaryIndex(words, charIndex) == BoundaryScan(words, 1, 0, charIndex)

onboundary(s, k, charIndex) ==
    LET s1 == IF ~s.firstBoundaryHeardRef
              THEN clearHighlightTimer(clearFallbackTimer(
                       [s EXCEPT !.firstBoundaryHeardRef = TRUE], k))
              ELSE s
        idx == BoundaryIndex(Words(story), charIndex)
    IN IF idx # NULL
       THEN setCurrentWordIndex(s1, idx)
       ELSE s1

onend(s, k) ==
    LET s1 == clearHighlightTimer(IF isAndroid THEN s ELSE clearFallbackTimer(s, k))
    IN [setCurrentWordIndex(s1, NULL) EXCEPT !.isSpeaking = FALSE]

\* the error handler issuing the utterance once more after its teardown
onerror_Retrying(s, k, err) == synthSpeak(onend(s, k), k)

onerror(s, k, err) ==
    LET s1 == clearHighlightTimer(IF isAndroid THEN s ELSE clearFallbackTimer(s, k))
        s2 == [setCurrentWordIndex(s1, NULL) EXCEPT !.isSpeaking = FALSE]
    IN IF s.stoppedByUserRef \/ err = "interrupted" \/ err = "canceled"
       THEN s2
       ELSE setError(s2, MsgCouldNotPlay)

\* the driver has delivered the end or error event of utterance k
Delivered(s, k) ==
    [s EXCEPT !.synth = Remove(@, k), !.sess[k].utt = "done"]

-----------------------------------------------------------------------------
(* Quiz normalisation *)

UpperAlpha == <<"A", "B", "C", "D", "E", "F", "G", "H", "I", "J", "K", "L", "M",
                "N", "O", "P", "Q", "R", "S", "T", "U", "V", "W", "X", "Y", "Z">>
LowerAlpha == <<"a", "b", "c", "d", "e", "f", "g", "h", "i", "j", "k", "l", "m",
                "n", "o", "p", "q", "r", "s", "t", "u", "v", "w", "x", "y", "z">>

IsUpper(c) == \E j \in 1..26 : UpperAlpha[j] = c
IsLower(c) == \E j \in 1..26 : LowerAlpha[j] = c
IsLetter(c) == IsUpper(c) \/ IsLower(c)

\* charCodeAt(0) - 64: the position of a letter counted from 1
LetterIndex_FromOne(c) ==
    CHOOSE j \in 1..26 : UpperAlpha[j] = c \/ LowerAlpha[j] = c

\* the position of a letter in the alphabet, from 0: charCodeAt(0) - 65 of
\* its upper-case form
LetterIndex(c) ==
    (CHOOSE j \in 1..26 : UpperAlpha[j] = c \/ LowerAlpha[j] = c) - 1

ToLowerChar(c) == IF IsUpper(c) THEN LowerAlpha[LetterIndex(c) + 1] ELSE c

toLowerCase(str) == [j \in 1..Len(str) |-> ToLowerChar(str[j])]

RECURSIVE TrimStart(_)
TrimStart(str) ==
    IF str # <<>> /\ IsSpace(Head(str)) THEN TrimStart(Tail(str)) ELSE str

RECURSIVE TrimEnd(_)
TrimEnd(str) ==
    IF str # <<>> /\ IsSpace(str[Len(str)])
    THEN TrimEnd(SubSeq(str, 1, Len(str) - 1))
    ELSE str

trim(str) == TrimEnd(TrimStart(str))

\* s.replace(/^\s*[A-D]\s*(?:[\)\.\:\-]\s*|\-\s*)/i, '').trim()
stripLabel(str) ==
    LET a == TrimStart(str)
        b == IF a # <<>> THEN TrimStart(Tail(a)) ELSE <<>>
    IN IF /\ a # <<>>
          /\ IsLetter(Head(a)) /\ LetterIndex(Head(a)) <= 3
          /\ b # <<>>
          /\ Head(b) \in {")", ".", ":", "-"}
       THEN trim(Tail(b))
       ELSE trim(str)

\* haystack.includes(needle)
includes(haystack, needle) ==
    \E j \in 0..(Len(haystack) - Len(needle)) :
        SubSeq(haystack, j + 1, j + Len(needle)) = needle

\* array.findIndex(pred), from 0, -1 when none; hits are the positions
\* (from 1) of the elements that satisfy pred
findIndex(hits) ==
    IF hits = {} THEN 0 - 1
    ELSE (CHOOSE j \in hits : \A h \in hits : j <= h) - 1

\* a string field that is absent (undefined) in the raw item; a number field
\* is <<>> when absent and <<n>> when it is the number n
Absent == <<"undefined">>

\* q.correctAnswer ?? q.correct ?? q.answer ?? ''
Coalesce(q) ==
    IF q.correctAnswer # Absent THEN q.correctAnswer
    ELSE IF q.correct # Absent THEN q.correct
    ELSE IF q.answer # Absent THEN q.answer
    ELSE <<>>

\* options[idx] is defined
Defined(options, idx) == idx >= 0 /\ idx < Len(options)

\* options[idx] ?? '', without the first option in between
PickOrFirst_NoFirst(options, idx) ==
    IF idx >= 0 /\ idx < Len(options) THEN options[idx + 1] ELSE <<>>

\* options[idx] ?? options[0] ?? ''
PickOrFirst(options, idx) ==
    IF Defined(options, idx) THEN options[idx + 1]
    ELSE IF options # <<>> THEN options[1]
    ELSE <<>>

\* the test of line 35 without its second half: an index in range counts
\* also when the option it points at is empty
hasExplicitIndex_AlsoEmpty(q, options) ==
    /\ q.correctAnswerIndex # <<>>
    /\ Defined(options, q.correctAnswerIndex[1])

\* typeof q.correctAnswerIndex === 'number' && options[q.correctAnswerIndex]
hasExplicitIndex(q, options) ==
    /\ q.correctAnswerIndex # <<>>
    /\ Defined(options, q.correctAnswerIndex[1])
    /\ options[q.correctAnswerIndex[1] + 1] # <<>>

\* the element of raw.map in normalizeQuizData
normalizeQuestion(q) ==
    LET options == [j \in 1..Len(q.options) |-> stripLabel(q.options[j])]
        rawAns == trim(Coalesce(q))
        norm == stripLabel(rawAns)
        exact == findIndex({j \in 1..Len(options) :
                               toLowerCase(options[j]) = toLowerCase(norm)})
        part == findIndex({j \in 1..Len(options) :
                              includes(toLowerCase(options[j]), toLowerCase(norm))})
        idx == IF exact = 0 - 1 THEN part ELSE exact
        out(pick) == [options |-> options, correctAnswer |-> pick]
    IN IF hasExplicitIndex(q, options)
       THEN out(options[q.correctAnswerIndex[1] + 1])
       ELSE IF rawAns # <<>> /\ IsLetter(Head(rawAns))
            THEN out(PickOrFirst(options, LetterIndex(Head(rawAns))))
            ELSE out(IF idx >= 0 THEN options[idx + 1] ELSE PickOrFirst(options, 0))

normalizeQuizData(raw) == [j \in 1..Len(raw) |-> normalizeQuestion(raw[j])]

\* a QuizQuestion read as a raw item: only correctAnswer is present
AsRaw(qq) == [options |-> qq.options, correctAnswer |-> qq.correctAnswer,
              correct |-> Absent, answer |-> Absent, correctAnswerIndex |-> <<>>]

-----------------------------------------------------------------------------
(* Playback: initial state and actions *)

\* the stories of the playback specification: none, and two words of which
\* the first ends a sentence
Stories == {<<>>, <<"a", ".", " ", "b">>}

(* The generation request: fetchWithTimeout and fetchWithRetry of           *)
(* src/unnamed/part_001                                                     *)

TIMEOUT_MS == 25000
BACKOFF_MS == 600
DefaultTries == 2

\* what a fetch settles with: a response (status, body) or a rejection (name,
\* message); NoResult before the first one
NoResult == [kind |-> "none", status |-> 0, body |-> <<>>, name |-> "",
             message |-> <<>>]

Response(status, body) ==
    [kind |-> "response", status |-> status, body |-> body, name |-> "",
     message |-> <<>>]

Rejection(name, message) ==
    [kind |-> "rejected", status |-> 0, body |-> <<>>, name |-> name,
     message |-> message]

TxtAborted == <<"T", "h", "e", " ", "o", "p", "e", "r", "a", "t", "i", "o", "n", " ", "w", "a", "s", " ", "a", "b", "o", "r", "t", "e", "d", ".">>

\* fetchWithTimeout(resource, options, ms): the controller aborts the fetch
\* after ms; server is how long the fetch takes and what it settles with
fetchWithTimeout(server, ms) ==
    IF server.delay >= ms THEN Rejection("AbortError", TxtAborted)
    ELSE server.result

\* res.ok
resOk(res) == res.status >= 200 /\ res.status <= 299

Digits == <<"0", "1", "2", "3", "4", "5", "6", "7", "8", "9">>

\* `HTTP ${res.status}` for a status of three digits
HttpMessage(status) ==
    <<"H", "T", "T", "P", " ", Digits[(status \div 100) + 1],
      Digits[((status \div 10) % 10) + 1], Digits[(status % 10) + 1]>>

\* an error e as the catch block reads it: e.name, Number(e.status || 0) and
\* e.message; Undefined is lastErr before any failure
Undefined == [name |-> "undefined", status |-> 0, message |-> <<>>]

\* the error of lines 26-29, or the rejection of the fetch itself
ErrorOf(settled) ==
    IF settled.kind = "response"
    THEN [name |-> "Error", status |-> settled.status,
          message |-> IF settled.body # <<>> THEN settled.body
                      ELSE HttpMessage(settled.status)]
    ELSE [name |-> settled.name, status |-> 0, message |-> settled.message]

TxtTemporarily == <<"t", "e", "m", "p", "o", "r", "a", "r", "i", "l", "y">>
TxtOverloaded == <<"o", "v", "e", "r", "l", "o", "a", "d", "e", "d">>
TxtTryAgain == <<"t", "r", "y", " ", "a", "g", "a", "i", "n">>

\* /temporarily|overloaded|try again/i.test(message)
MatchesRetryText(message) ==
    \/ includes(toLowerCase(message), TxtTemporarily)
    \/ includes(toLowerCase(message), TxtOverloaded)
    \/ includes(toLowerCase(message), TxtTryAgain)

\* every failure is retried
retryable_Always(e) == TRUE

\* the test of lines 35-38
retryable(e) ==
    \/ e.name = "AbortError"
    \/ e.status \in {429, 502, 503, 504}
    \/ MatchesRetryText(e.message)

\* no call of fetchWithRetry has been made
NoCall == [pc |-> "idle", tries |-> 0, i |-> 0, attempts |-> 0,
           settled |-> NoResult, lastErr |-> Undefined, thrown |-> Undefined,
           delay |-> 0]

\* fetchWithRetry(input, init, tries) up to its first await: the first fetch
\* is issued, or with no turn of the loop lastErr is thrown (line 43)
enterLoop(tries) ==
    IF 0 < tries
    THEN [NoCall EXCEPT !.pc = "fetching", !.tries = tries, !.attempts = 1]
    ELSE [NoCall EXCEPT !.pc = "thrown", !.tries = tries]

\* the body of the loop once the fetch has settled (lines 24-40)
afterFetch(r, settled) ==
    IF settled.kind = "response" /\ resOk(settled)
    THEN [r EXCEPT !.pc = "returned", !.settled = settled]
    ELSE LET e == ErrorOf(settled)
         IN IF ~retryable(e) \/ r.i = r.tries - 1
            THEN [r EXCEPT !.pc = "thrown", !.settled = settled, !.lastErr = e,
                           !.thrown = e]
            ELSE [r EXCEPT !.pc = "sleeping", !.settled = settled, !.lastErr = e,
                           !.delay = BACKOFF_MS * (r.i + 1)]

\* the timeout of line 40 has passed: i++ and the test of the loop
afterBackoff(r) ==
    IF r.i + 1 < r.tries
    THEN [r EXCEPT !.pc = "fetching", !.i = @ + 1, !.attempts = @ + 1,
                   !.delay = 0]
    ELSE [r EXCEPT !.pc = "thrown", !.i = @ + 1, !.thrown = r.lastErr,
                   !.delay = 0]

InitPlayback(stories, platforms) ==
    /\ story \in stories
    /\ isAndroid \in platforms
    /\ isSpeaking = FALSE
    /\ isSpeakingRef = FALSE
    /\ currentWordIndex = NULL
    /\ error = NoError
    /\ stoppedByUserRef = FALSE
    /\ highlightTimerRef = 0
    /\ firstBoundaryHeardRef = FALSE
    /\ utteranceRef = 0
    /\ timers = <<>>
    /\ sess = [k \in Sessions |-> NoSession]
    /\ synth = <<>>
    /\ plays = 0
    /\ stops = 0
    /\ speaks = 0
    /\ steps = 0
    /\ ev = [op |-> "init", sid |-> 0, arg |-> 0, wrote |-> <<>>,
             erred |-> FALSE, paced |-> FALSE]
    /\ log = <<>>

InitQuiz(raws) ==
    /\ rawQuiz \in raws
    /\ quiz = <<>>
    /\ requiz = <<>>
    /\ userAnswers = <<>>
    /\ currentQuestionIndex = 0
    /\ view = "config"
    /\ retry = NoCall

Init == InitPlayback(Stories, BOOLEAN) /\ InitQuiz({<<>>})

\* The handler's result s0, committed, with its new timeouts placed.  ev
\* records the event: its kind, the session k of the callback (0 for none),
\* an argument, the values the handler passed to setCurrentWordIndex, whether
\* it called setError with a message, and whether the pacing interval of
\* session k was armed when the event arrived.
Become(s0, op, k, arg) ==
    LET s == Commit(s0)
    IN \E c \in Cuts(s.timers, s.fresh) :
        /\ isSpeaking' = s.isSpeaking
        /\ isSpeakingRef' = s.isSpeakingRef
        /\ currentWordIndex' = s.currentWordIndex
        /\ error' = s.error
        /\ stoppedByUserRef' = s.stoppedByUserRef
        /\ highlightTimerRef' = s.highlightTimerRef
        /\ firstBoundaryHeardRef' = s.firstBoundaryHeardRef
        /\ utteranceRef' = s.utteranceRef
        /\ timers' = Merge(s.timers, s.fresh, c)
        /\ sess' = s.sess
        /\ synth' = s.synth
        /\ plays' = s.plays
        /\ stops' = s.stops
        /\ speaks' = s.speaks
        /\ ev' = [op |-> op, sid |-> k, arg |-> arg, wrote |-> s0.wrote,
                  erred |-> s0.erred,
                  paced |-> (k \in Sessions /\ sess[k].armed)]
        /\ UNCHANGED <<story, isAndroid>>

\* the user presses Play 1x or Play 0.5x
Play ==
    /\ plays < MaxPlays
    /\ \E rate \in Rates : Become(playSpeak(St, rate), "play", plays + 1, 0)

\* the user presses Stop
Stop ==
    /\ stops < MaxStops
    /\ Become(stopSpeaking([St EXCEPT !.stops = @ + 1], TRUE), "stop", 0, 0)

\* the state with the earliest pending timeout taken off: it falls due
Popped == [St EXCEPT !.timers = Tail(@)]

SpeakDue ==
    /\ timers # <<>> /\ Head(timers).kind = "speak"
    /\ \E ok \in BOOLEAN :
         Become(delayedSpeak(Popped, Head(timers).sid, ok), "speak",
                Head(timers).sid, 0)

DeadlineDue ==
    /\ timers # <<>> /\ Head(timers).kind = "deadline"
    /\ Become(fallbackTimer(Popped, Head(timers).sid), "deadline",
              Head(timers).sid, 0)

ResetDue ==
    /\ timers # <<>> /\ Head(timers).kind = "reset"
    /\ Become(resetStopped(Popped), "reset", 0, 0)

\* the pacing interval of session k fires
Tick ==
    \E k \in Sessions :
        /\ sess[k].armed
        /\ Become(tick(St, k), "tick", k, 0)

\* the character offsets a boundary event carries in the playback
\* specification: in the first word, in the last character, past the end
Offsets == {0, Len(story) - 1, Len(story) + 1}

\* the driver reports a boundary of the utterance it is speaking; the handler
\* is set on desktop utterances only
BoundaryAt(c, arg) ==
    /\ ~isAndroid
    /\ synth # <<>>
    /\ Become(onboundary(St, Head(synth), c), "boundary", Head(synth), arg)

Boundary == \E c \in Offsets : BoundaryAt(c, 0)

\* the utterances whose end or error event the driver may deliver: the one it
\* is speaking and the cancelled ones
Live(k) == (synth # <<>> /\ Head(synth) = k) \/ sess[k].utt = "cancelled"

End ==
    \E k \in Sessions :
        /\ Live(k)
        /\ Become(onend(Delivered(St, k), k), "end", k, 0)

Error ==
    \E k \in Sessions :
        /\ Live(k)
        /\ \E err \in DriverErrors :
             Become(onerror(Delivered(St, k), k, err), "error", k,
                    IF err \in {"interrupted", "canceled"} THEN 0 ELSE 1)

\* one more event, within the bound on the length of a run
Step == steps < MaxSteps /\ steps' = steps + 1

Next ==
    \/ Play /\ Step /\ UNCHANGED <<log, quizVars>>
    \/ Stop /\ Step /\ UNCHANGED <<log, quizVars>>
    \/ SpeakDue /\ Step /\ UNCHANGED <<log, quizVars>>
    \/ DeadlineDue /\ Step /\ UNCHANGED <<log, quizVars>>
    \/ ResetDue /\ Step /\ UNCHANGED <<log, quizVars>>
    \/ Tick /\ Step /\ UNCHANGED <<log, quizVars>>
    \/ Boundary /\ Step /\ UNCHANGED <<log, quizVars>>
    \/ End /\ Step /\ UNCHANGED <<log, quizVars>>
    \/ Error /\ Step /\ UNCHANGED <<log, quizVars>>

Spec == Init /\ [][Next]_vars

-----------------------------------------------------------------------------
(* Quiz: the inputs of the quiz specification and its actions *)

TxtCat == <<"C", "a", "t">>
TxtDog == <<"D", "o", "g">>
TxtBird == <<"B", "i", "r", "d">>
TxtFish == <<"F", "i", "s", "h">>
TxtEmu == <<"E", "m", "u">>
TxtLabelledParis == <<"A", ")", " ", "P", "a", "r", "i", "s">>
TxtLabelledLondon == <<"B", ")", " ", "L", "o", "n", "d", "o", "n">>
TxtLabelledRome == <<"C", ")", " ", "R", "o", "m", "e">>
TxtLabelledBerlin == <<"D", ")", " ", "B", "e", "r", "l", "i", "n">>
TxtLondon == <<"L", "o", "n", "d", "o", "n">>
TxtLowerDog == <<"d", "o", "g">>
TxtNumber42 == <<"4", "2">>
TxtNumber7 == <<"7">>
TxtTwiceLabelled == <<"A", ".", " ", "B", ".", " ", "o", "x">>
TxtDashLabelled == <<" ", "b", " ", "-", " ", "7">>
TxtEmpty == <<>>
TxtLabelOnly == <<"B", ")", " ">>

\* the longest options list drawn
MaxOptions == 4

\* options lists as the service may return them: plain texts, labelled
\* texts, texts that do not start with a letter, texts that still start with
\* a label after one label has been stripped, texts that are empty or
\* nothing but a label
BaseOptions ==
    {<<TxtCat, TxtDog, TxtBird, TxtFish, TxtEmu>>,
     <<TxtCat, TxtEmpty, TxtLabelOnly>>,
     <<TxtLabelledParis, TxtLabelledLondon, TxtLabelledRome, TxtLabelledBerlin>>,
     <<TxtNumber42, TxtNumber7>>,
     <<TxtTwiceLabelled, TxtDashLabelled>>}

OptionLists ==
    {SubSeq(l, 1, IF n <= Len(l) THEN n ELSE Len(l)) :
        l \in BaseOptions, n \in 0..MaxOptions}

\* the raw answers: letters in either case, with and without blanks, option
\* texts in and out of case, a labelled text, the empty answer
RawAnswers ==
    {<<"A">>, <<"B">>, <<"b">>, <<" ", "c", " ">>, <<"D">>, <<"d">>, <<"E">>,
     TxtLowerDog, TxtDog, TxtLondon, TxtLabelledLondon, TxtNumber42, TxtNumber7,
     <<>>}

\* the explicit indexes: none, and every number from -1 to MaxOptions
RawIndexes == {<<>>} \cup {<<n>> : n \in (0 - 1)..MaxOptions}

\* the items of result.quiz: the answer under correctAnswer, or under correct
\* or answer when the fields before it are absent
RawItems ==
    {[options |-> o, correctAnswer |-> a, correct |-> b, answer |-> c,
      correctAnswerIndex |-> i] :
        o \in OptionLists,
        a \in RawAnswers \cup {Absent},
        b \in {Absent, <<"B">>},
        c \in {Absent, TxtLowerDog},
        i \in RawIndexes}

RawQuizzes == {<<q>> : q \in RawItems}

MsgUnknown == "An unknown error occurred."

\* handleGenerate once generateStoryAndQuiz has settled: with a result the
\* story and the normalized quiz are stored, with a rejection the message
Generate ==
    /\ ev.op = "init"
    /\ \/ /\ \E text \in Stories : story' = text
          /\ quiz' = normalizeQuizData(rawQuiz)
          /\ userAnswers' = [j \in 1..Len(rawQuiz) |-> <<>>]
          /\ view' = "story"
          /\ error' = NoError
          /\ ev' = [ev EXCEPT !.op = "generate"]
       \/ /\ error' = MsgUnknown
          /\ view' = "config"
          /\ ev' = [ev EXCEPT !.op = "rejected"]
          /\ UNCHANGED <<story, quiz, userAnswers>>
    /\ UNCHANGED <<isAndroid, isSpeaking, isSpeakingRef, currentWordIndex,
                   stoppedByUserRef, highlightTimerRef, firstBoundaryHeardRef,
                   utteranceRef, timers, sess, synth, plays, stops, speaks, steps,
                   log, rawQuiz, requiz, currentQuestionIndex, retry>>

\* normalizeQuizData applied to the stored quiz, each question read as a raw
\* item
Renormalize ==
    /\ ev.op = "generate"
    /\ requiz' = normalizeQuizData([j \in 1..Len(quiz) |-> AsRaw(quiz[j])])
    /\ ev' = [ev EXCEPT !.op = "renormalize"]
    /\ UNCHANGED <<coordVars, log, rawQuiz, quiz, userAnswers,
                   currentQuestionIndex, view, retry>>

InitQuizSpec == InitPlayback({<<>>}, {FALSE}) /\ InitQuiz(RawQuizzes)

NextQuiz == Generate \/ Renormalize

SpecQuiz == InitQuizSpec /\ [][NextQuiz]_vars

-----------------------------------------------------------------------------
(* Taking the quiz: startQuiz, handleAnswerSelect, handleNextQuestion and   *)
(* the results screen                                                       *)

\* the longest quiz drawn, in questions
MaxQuestions == 3

\* the option texts of every question of the scoring specification
AnswerTexts == <<<<"A">>, <<"B">>, <<"C">>, <<"X">>>>

\* questions whose correct answer is "A", "B" or "C", given by explicit index
ScoreItems ==
    {[options |-> AnswerTexts, correctAnswer |-> Absent, correct |-> Absent,
      answer |-> Absent, correctAnswerIndex |-> <<i>>] : i \in 0..2}

ScoreQuizzes == UNION {[1..n -> ScoreItems] : n \in 1..MaxQuestions}

\* startQuiz: playback is stopped when it is running
StartQuiz ==
    /\ view = "story"
    /\ Become(IF isSpeaking THEN stopSpeaking(St, FALSE) ELSE St, "startQuiz", 0, 0)
    /\ currentQuestionIndex' = 0
    /\ view' = "quiz"
    /\ UNCHANGED <<steps, log, rawQuiz, quiz, requiz, userAnswers, retry>>

\* handleAnswerSelect(option), from the button of an option of the question
handleAnswerSelect ==
    /\ view = "quiz"
    /\ \E h \in 1..Len(quiz[currentQuestionIndex + 1].options) :
         userAnswers' = [userAnswers EXCEPT ![currentQuestionIndex + 1] =
                             quiz[currentQuestionIndex + 1].options[h]]
    /\ ev' = [ev EXCEPT !.op = "answer"]
    /\ UNCHANGED <<coordVars, log, rawQuiz, quiz, requiz, currentQuestionIndex,
                   view, retry>>

\* handleNextQuestion; its button is disabled until the question is answered
handleNextQuestion ==
    /\ view = "quiz"
    /\ userAnswers[currentQuestionIndex + 1] # <<>>
    /\ IF currentQuestionIndex < Len(quiz) - 1
       THEN currentQuestionIndex' = currentQuestionIndex + 1 /\ view' = view
       ELSE view' = "results" /\ currentQuestionIndex' = currentQuestionIndex
    /\ ev' = [ev EXCEPT !.op = "next"]
    /\ UNCHANGED <<coordVars, log, rawQuiz, quiz, requiz, userAnswers, retry>>

RECURSIVE ScoreUpTo(_)
\* quiz.reduce over the first n questions
ScoreUpTo(n) ==
    IF n = 0 THEN 0
    ELSE ScoreUpTo(n - 1)
         + (IF quiz[n].correctAnswer = userAnswers[n] THEN 1 ELSE 0)

\* ResultsScreen: score
score == ScoreUpTo(Len(quiz))

\* Math.floor((score / quiz.length) * 100): rounding down
percentage_RoundedDown == (100 * score) \div Len(quiz)

\* ResultsScreen: Math.round((score / quiz.length) * 100), the half rounded
\* up; at the halves of quizzes this short the quotient is exact in binary
\* floating point
percentage == (200 * score + Len(quiz)) \div (2 * Len(quiz))

InitScore == InitPlayback({<<>>}, {FALSE}) /\ InitQuiz(ScoreQuizzes)

NextScore ==
    \/ Generate
    \/ StartQuiz
    \/ handleAnswerSelect
    \/ handleNextQuestion

SpecScore == InitScore /\ [][NextScore]_vars

-----------------------------------------------------------------------------
(* Driver errors of every kind: play requests, the delayed speak and error  *)
(* events; log keeps the kind and the message of each error the handler     *)
(* reports                                                                  *)

ErrorOfAnyKind ==
    \E k \in Sessions :
        /\ Live(k)
        /\ \E err \in ErrorKinds :
             LET s0 == onerror(Delivered(St, k), k, err)
             IN /\ Become(s0, "error", k,
                          IF err \in {"interrupted", "canceled"} THEN 0 ELSE 1)
                /\ log' = IF s0.erred
                          THEN Append(log, [kind |-> err, msg |-> s0.error])
                          ELSE log
        /\ UNCHANGED <<steps, quizVars>>

InitErrors == InitPlayback(Stories \ {<<>>}, BOOLEAN) /\ InitQuiz({<<>>})

NextErrors ==
    \/ Play /\ UNCHANGED <<log, steps, quizVars>>
    \/ SpeakDue /\ UNCHANGED <<log, steps, quizVars>>
    \/ ErrorOfAnyKind

SpecErrors == InitErrors /\ [][NextErrors]_vars

-----------------------------------------------------------------------------
(* Fallback pacing left to run: one play request, then only its timers *)

\* the longest story drawn, in words
MaxWords == 3

\* words that end a sentence, end a clause, or neither
WordPool == {<<"a">>, <<"a", ".">>, <<"a", ",">>}

RECURSIVE JoinWords(_)
JoinWords(ws) ==
    IF Len(ws) = 1 THEN ws[1] ELSE ws[1] \o <<" ">> \o JoinWords(Tail(ws))

FallbackStories ==
    {JoinWords(ws) : ws \in UNION {[1..n -> WordPool] : n \in 1..MaxWords}}

InitFallback == InitPlayback(FallbackStories, BOOLEAN) /\ InitQuiz({<<>>})

\* the first and only play request; its own reset of the index is not logged
PlayOnce == plays = 0 /\ Play /\ UNCHANGED <<log, steps, quizVars>>

\* the pacing interval fires, with its write logged
FallbackTick == Tick /\ log' = log \o ev'.wrote /\ UNCHANGED <<steps, quizVars>>

\* log collects what the timer callbacks pass to setCurrentWordIndex
NextFallback ==
    \/ PlayOnce
    \/ SpeakDue /\ log' = log \o ev'.wrote /\ UNCHANGED <<steps, quizVars>>
    \/ DeadlineDue /\ log' = log \o ev'.wrote /\ UNCHANGED <<steps, quizVars>>
    \/ FallbackTick
    \/ ResetDue /\ log' = log \o ev'.wrote /\ UNCHANGED <<steps, quizVars>>

SpecFallback == InitFallback /\ [][NextFallback]_vars

\* setInterval keeps firing its callback until clearInterval: an armed pacing
\* interval ticks again
SpecFallbackFair == SpecFallback /\ WF_vars(FallbackTick)

-----------------------------------------------------------------------------
(* Fallback pacing observed tick by tick: one play request, then only its   *)
(* timers; log keeps the index on the screen after each tick                *)

\* the pacing interval fires; the index it leaves is logged
PacingTick ==
    /\ Tick
    /\ log' = Append(log, currentWordIndex')
    /\ UNCHANGED <<steps, quizVars>>

NextPacing ==
    \/ PlayOnce
    \/ SpeakDue /\ UNCHANGED <<log, steps, quizVars>>
    \/ DeadlineDue /\ UNCHANGED <<log, steps, quizVars>>
    \/ PacingTick
    \/ ResetDue /\ UNCHANGED <<log, steps, quizVars>>

SpecPacing == InitFallback /\ [][NextPacing]_vars

-----------------------------------------------------------------------------
(* Stop requests: one play request, stop requests before and after it, the  *)
(* timers and the driver callbacks; from a stop request to the play request *)
(* log holds the number of speak calls made before the stop                 *)

InitStop == InitPlayback(Stories \ {<<>>}, BOOLEAN) /\ InitQuiz({<<>>})

\* the first and only play request: what the log held of a stop request is
\* dropped
PlayLogged == plays = 0 /\ Play /\ log' = <<>> /\ UNCHANGED <<steps, quizVars>>

\* the user presses Stop
StopLogged == Stop /\ log' = <<speaks>> /\ UNCHANGED <<steps, quizVars>>

NextStop ==
    \/ PlayLogged
    \/ StopLogged
    \/ SpeakDue /\ UNCHANGED <<log, steps, quizVars>>
    \/ DeadlineDue /\ UNCHANGED <<log, steps, quizVars>>
    \/ ResetDue /\ UNCHANGED <<log, steps, quizVars>>
    \/ Tick /\ UNCHANGED <<log, steps, quizVars>>
    \/ Boundary /\ UNCHANGED <<log, steps, quizVars>>
    \/ End /\ UNCHANGED <<log, steps, quizVars>>
    \/ Error /\ UNCHANGED <<log, steps, quizVars>>

SpecStop == InitStop /\ [][NextStop]_vars

-----------------------------------------------------------------------------
(* Boundary-driven playback: one play request on a desktop platform, then   *)
(* boundary events whose character offsets do not decrease                  *)

\* the longest story drawn, in characters
MaxStoryLen == 5

\* the most boundary events of a run
MaxBoundaries == 3

\* every text of letters and blanks: words, runs of blanks, blanks in front
BoundaryStories ==
    UNION {[1..n -> {"a", " "}] : n \in 1..MaxStoryLen}

InitBoundary == InitPlayback(BoundaryStories, {FALSE}) /\ InitQuiz({<<>>})

\* a boundary event whose offset is not below that of the one before it;
\* ev.arg keeps the offset
BoundaryInOrder ==
    /\ Len(log) + steps < MaxBoundaries
    /\ \E c \in 0..(Len(story) + 1) :
         /\ (ev.op = "boundary" => c >= ev.arg)
         /\ BoundaryAt(c, c)
    /\ log' = log \o ev'.wrote
    /\ steps' = steps + (IF ev'.wrote = <<>> THEN 1 ELSE 0)
    /\ UNCHANGED quizVars

\* log collects what the boundary handler passes to setCurrentWordIndex and
\* steps counts the boundary events that passed nothing
NextBoundary ==
    \/ PlayOnce
    \/ SpeakDue /\ UNCHANGED <<log, steps, quizVars>>
    \/ BoundaryInOrder

SpecBoundary == InitBoundary /\ [][NextBoundary]_vars

-----------------------------------------------------------------------------
(* Playback of any story text on either platform: one play request, its     *)
(* timers, boundary events at any offset and the end of the utterance       *)

InitAnyStory == InitPlayback(BoundaryStories, BOOLEAN) /\ InitQuiz({<<>>})

\* a boundary event at any offset of the story, or just past it
BoundaryAnywhere == \E c \in 0..(Len(story) + 1) : BoundaryAt(c, c)

NextAnyStory ==
    \/ PlayOnce
    \/ SpeakDue /\ UNCHANGED <<log, steps, quizVars>>
    \/ DeadlineDue /\ UNCHANGED <<log, steps, quizVars>>
    \/ ResetDue /\ UNCHANGED <<log, steps, quizVars>>
    \/ Tick /\ UNCHANGED <<log, steps, quizVars>>
    \/ BoundaryAnywhere /\ UNCHANGED <<log, steps, quizVars>>
    \/ End /\ UNCHANGED <<log, steps, quizVars>>

SpecAnyStory == InitAnyStory /\ [][NextAnyStory]_vars

-----------------------------------------------------------------------------
(* The generation request: calls of fetchWithRetry against a server that    *)
(* answers, fails or takes too long                                         *)

\* the most attempts asked for
MaxTries == 3

TxtFailedToFetch == <<"F", "a", "i", "l", "e", "d", " ", "t", "o", " ", "f", "e", "t", "c", "h">>
TxtBodyOverloaded == <<"T", "h", "e", " ", "m", "o", "d", "e", "l", " ", "i", "s", " ", "O", "v", "e", "r", "l", "o", "a", "d", "e", "d">>
TxtBodyTryAgain == <<"P", "l", "e", "a", "s", "e", " ", "T", "R", "Y", " ", "A", "G", "A", "I", "N", " ", "l", "a", "t", "e", "r">>
TxtBodyTemporarily == <<"T", "e", "m", "p", "o", "r", "a", "r", "i", "l", "y", " ", "d", "o", "w", "n">>
TxtBodyBad == <<"b", "a", "d", " ", "r", "e", "q", "u", "e", "s", "t">>

Statuses == {200, 404, 429, 500, 502, 503, 504}

Bodies == {<<>>, TxtBodyOverloaded, TxtBodyTryAgain, TxtBodyTemporarily, TxtBodyBad}

\* a server answers in time or after the timeout, with a response or with a
\* failure of the network
Servers ==
    [delay : {100, 30000},
     result : {Response(s, b) : s \in Statuses, b \in Bodies}
              \cup {Rejection("TypeError", TxtFailedToFetch)}]

\* generateStoryAndQuiz calls fetchWithRetry with the default of tries; other
\* callers may pass any number
CallFetchWithRetry ==
    /\ retry.pc = "idle"
    /\ \E tries \in {DefaultTries} \cup 0..MaxTries : retry' = enterLoop(tries)
    /\ UNCHANGED <<coordVars, ev, log, rawQuiz, quiz, requiz, userAnswers,
                   currentQuestionIndex, view>>

\* the fetch of the current attempt settles
FetchSettles ==
    /\ retry.pc = "fetching"
    /\ \E server \in Servers :
         retry' = afterFetch(retry, fetchWithTimeout(server, TIMEOUT_MS))
    /\ UNCHANGED <<coordVars, ev, log, rawQuiz, quiz, requiz, userAnswers,
                   currentQuestionIndex, view>>

\* the pause before the next attempt is over
BackoffElapsed ==
    /\ retry.pc = "sleeping"
    /\ retry' = afterBackoff(retry)
    /\ UNCHANGED <<coordVars, ev, log, rawQuiz, quiz, requiz, userAnswers,
                   currentQuestionIndex, view>>

InitRetry == InitPlayback({<<>>}, {FALSE}) /\ InitQuiz({<<>>})

NextRetry == CallFetchWithRetry \/ FetchSettles \/ BackoffElapsed

SpecRetry == InitRetry /\ [][NextRetry]_vars

-----------------------------------------------------------------------------
(* Claims about playback *)

\* the timer callbacks of a session: the delayed speak, the arbitration
\* deadline, the pacing tick
TimerOps == {"speak", "deadline", "tick"}

\* a stop request was made and its 120 ms have not passed: the timeout that
\* request armed is still pending
WithinGrace == \E j \in 1..Len(timers) : timers[j].kind = "reset" /\ timers[j].click

\* some pacing interval is armed
SomeArmed == \E k \in Sessions : sess[k].armed

\* C1: after a play request, no timer callback of an earlier session (delayed
\* speak, arbitration deadline, pacing tick) writes currentWordIndex: every
\* such write comes from the session of the latest play request.
C1_NoWriteFromEarlierSession ==
    (ev.op \in TimerOps /\ ev.wrote # <<>>) => ev.sid = plays

\* C2: a driver error callback that arrives within 120 ms after a stop
\* request does not call setError with a message, whatever its kind.
C2_NoErrorWithinGrace ==
    (ev.op = "error" /\ WithinGrace) => ~ev.erred

\* C3: right after a stop request currentWordIndex is null, isSpeaking is
\* false, the driver holds no utterance and no pacing interval is armed.
C3_StopIsSynchronous ==
    ev.op = "stop" =>
        /\ currentWordIndex = NULL
        /\ ~isSpeaking
        /\ synth = <<>>
        /\ highlightTimerRef = 0
        /\ ~SomeArmed

Expected ==
    [j \in 1..(Len(Words(story)) + 1) |->
        IF j <= Len(Words(story)) THEN j - 1 ELSE NULL]

\* C4: a fallback-pacing run left alone sets currentWordIndex to 0, 1, ...,
\* N-1 in that order, each once, and then to null: at every moment what the
\* timer callbacks have written is a prefix of that sequence, and it is the
\* whole sequence once the pacing interval is no longer armed.
C4_VisitsEveryWordOnce ==
    /\ Len(log) <= Len(Expected)
    /\ log = SubSeq(Expected, 1, Len(log))
    /\ (log # <<>> /\ ~SomeArmed) => log = Expected

\* C4 witness: a run over a story of three words, the first of which ends a
\* sentence, has finished.
C4_Witness ==
    /\ Len(Words(story)) = 3
    /\ LastChar(Words(story)[1]) = "."
    /\ ev.op = "tick"
    /\ ~SomeArmed
    /\ log = Expected

\* C6: the values the boundary handler writes for offsets that do not
\* decrease do not decrease; an event past the end writes nothing.
C6_BoundaryWritesMonotone ==
    /\ \A j \in 1..(Len(log) - 1) : log[j] <= log[j + 1]
    /\ (ev.op = "boundary" /\ ev.arg > Len(story)) => ev.wrote = <<>>

\* C6 witness: two boundary events wrote a lower and then a higher index, and
\* a third, past the end of the story, wrote nothing.
C6_Witness ==
    /\ ev.op = "boundary" /\ ev.arg > Len(story)
    /\ ev.wrote = <<>>
    /\ Len(log) = 2
    /\ log[1] < log[2]

-----------------------------------------------------------------------------
(* Claims about quiz normalisation *)

\* the raw answer of an item, as line 32 reads it
RawAnswerOf(q) == trim(Coalesce(q))

\* C7: when the options list of a raw item is not empty, the correctAnswer of
\* the normalized question is one of its label-stripped options.
C7_AnswerIsAnOption ==
    ev.op = "generate" =>
        \A j \in 1..Len(quiz) :
            quiz[j].options # <<>> =>
                \E h \in 1..Len(quiz[j].options) :
                    quiz[j].options[h] = quiz[j].correctAnswer

\* C7 witness: an item with options, an explicit index out of range and no
\* answer at all was normalized.
C7_Witness ==
    /\ ev.op = "generate"
    /\ Len(quiz[1].options) >= 2
    /\ rawQuiz[1].correctAnswerIndex # <<>>
    /\ ~Defined(quiz[1].options, rawQuiz[1].correctAnswerIndex[1])
    /\ RawAnswerOf(rawQuiz[1]) = <<>>
    /\ quiz[1].correctAnswer = quiz[1].options[1]

\* C8: normalizing a normalized question again returns the same options and
\* the same correctAnswer.
C8_Idempotent ==
    ev.op = "renormalize" => requiz = quiz

\* C9: with no explicit index, a raw answer that equals the text of an option
\* up to letter case gives a correctAnswer that equals it up to letter case.
C9_TextMatchIgnoresCase ==
    ev.op = "generate" =>
        \A j \in 1..Len(quiz) :
            (/\ rawQuiz[j].correctAnswerIndex = <<>>
             /\ \E h \in 1..Len(quiz[j].options) :
                    toLowerCase(quiz[j].options[h])
                        = toLowerCase(RawAnswerOf(rawQuiz[j])))
            => toLowerCase(quiz[j].correctAnswer)
                   = toLowerCase(RawAnswerOf(rawQuiz[j]))

\* the option position a letter names
LetterPosition(c) ==
    CASE c \in {"A", "a"} -> 0
      [] c \in {"B", "b"} -> 1
      [] c \in {"C", "c"} -> 2
      [] c \in {"D", "d"} -> 3

\* the item gives no explicit index and its raw answer is one letter A to D
SingleLetterAnswer(q) ==
    /\ q.correctAnswerIndex = <<>>
    /\ Len(RawAnswerOf(q)) = 1
    /\ RawAnswerOf(q)[1] \in {"A", "a", "B", "b", "C", "c", "D", "d"}

\* C10: with no explicit index and a raw answer that is one letter A to D,
\* in either case, correctAnswer is the label-stripped text of the option at
\* position 0 to 3, and that of option 0 when the position does not exist.
C10_LetterPicksOption ==
    ev.op = "generate" =>
        \A j \in 1..Len(quiz) :
            (SingleLetterAnswer(rawQuiz[j]) /\ rawQuiz[j].options # <<>>) =>
                LET pos == LetterPosition(RawAnswerOf(rawQuiz[j])[1])
                    given == rawQuiz[j].options
                IN quiz[j].correctAnswer =
                       IF pos < Len(given) THEN stripLabel(given[pos + 1])
                       ELSE stripLabel(given[1])

\* C10 witness: the options "A) Paris", "B) London", "C) Rome", "D) Berlin"
\* with the raw answer "B" gave "London".
C10_Witness ==
    /\ ev.op = "generate"
    /\ rawQuiz[1].options = <<TxtLabelledParis, TxtLabelledLondon,
                               TxtLabelledRome, TxtLabelledBerlin>>
    /\ rawQuiz[1].correctAnswerIndex = <<>>
    /\ rawQuiz[1].correctAnswer = <<"B">>
    /\ quiz[1].correctAnswer = TxtLondon

-----------------------------------------------------------------------------
(* Claims about the results screen *)

\* the question positions at which the user's answer is the correct answer
CorrectPositions ==
    {j \in 1..Len(quiz) : userAnswers[j] = quiz[j].correctAnswer}

\* C11: on the results screen the score is the number of positions at which
\* the user's answer equals the correctAnswer, and the percentage is an
\* integer nearest to 100 * score / questionCount.
C11_ScoreCountsMatches ==
    view = "results" =>
        /\ score = Cardinality(CorrectPositions)
        /\ 2 * (100 * score - percentage * Len(quiz)) <= Len(quiz)
        /\ 2 * (percentage * Len(quiz) - 100 * score) <= Len(quiz)

\* C11 witness: correct answers A, B, C and user answers A, X, C give score 2
\* of 3 and 67%.
C11_Witness ==
    /\ view = "results"
    /\ Len(quiz) = 3
    /\ [j \in 1..3 |-> quiz[j].correctAnswer] = <<<<"A">>, <<"B">>, <<"C">>>>
    /\ userAnswers = <<<<"A">>, <<"X">>, <<"C">>>>
    /\ score = 2
    /\ percentage = 67

-----------------------------------------------------------------------------
(* More claims about playback *)

\* C12: at every moment at most one utterance is queued or spoken in the
\* driver.
C12_AtMostOneUtterance == Len(synth) <= 1

\* C13: a driver error whose kind is neither interrupted nor canceled and
\* that arrives while the stopped-by-user flag is not set (the handler calls
\* setError) leaves the session idle, with isSpeaking false, currentWordIndex
\* null, its pacing interval and its arbitration deadline cancelled, and
\* leaves an error message on the screen.
C13_ErrorSurfaces ==
    (ev.op = "error" /\ ev.erred) =>
        /\ ~isSpeaking
        /\ currentWordIndex = NULL
        /\ ~sess[ev.sid].armed
        /\ ~Has(timers, DeadlineTimer(ev.sid))
        /\ error # NoError

\* the kinds named permission-denied, voice-unavailable, synthesis-failed,
\* network and device-busy
NamedKinds == {"not-allowed", "language-unavailable", "synthesis-failed",
               "network", "audio-busy"}

\* C14: two reported errors of different kinds, each one of not-allowed,
\* language-unavailable, synthesis-failed, network and audio-busy, carry
\* different messages.
C14_DistinctMessages ==
    \A i, j \in 1..Len(log) :
        (/\ log[i].kind \in NamedKinds
         /\ log[j].kind \in NamedKinds
         /\ log[i].kind # log[j].kind)
        => log[i].msg # log[j].msg

\* C15: on an Android platform no arbitration deadline is ever pending and no
\* boundary event is handled, and the callback that issues the utterance
\* starts fallback pacing itself: it sets the index to 0 and arms the pacing
\* interval of its session.
C15_AndroidPacesAtOnce ==
    isAndroid =>
        /\ \A j \in 1..Len(timers) : timers[j].kind # "deadline"
        /\ ev.op # "boundary"
        /\ (ev.op = "speak" /\ Has(synth, ev.sid)) =>
               /\ ev.wrote = <<0>>
               /\ sess[ev.sid].armed
               /\ highlightTimerRef = ev.sid

\* C15 witness: on Android the utterance has just been issued and the pacing
\* interval of its session is armed.
C15_Witness ==
    /\ isAndroid
    /\ ev.op = "speak"
    /\ Has(synth, ev.sid)
    /\ sess[ev.sid].armed
    /\ currentWordIndex = 0

\* C16: the first boundary event of a session that arrives before the
\* arbitration deadline cancels the deadline, so that no fallback pacing
\* starts in that session: after every boundary event the deadline of its
\* session is not pending (it was cancelled, or it had fallen due before).
C16_BoundaryCancelsDeadline ==
    ev.op = "boundary" => ~Has(timers, DeadlineTimer(ev.sid))

\* C17: a pacing tick that fires while isSpeakingRef is false changes neither
\* currentWordIndex nor isSpeaking nor error.
C17_StaleTickDropped ==
    [][(ev'.op = "tick" /\ ~isSpeakingRef)
           => UNCHANGED <<currentWordIndex, isSpeaking, error>>]_vars

\* C17 witness: a tick has fired while isSpeakingRef was false; it neither
\* wrote the index nor ended a run.
C17_Witness ==
    /\ ev.op = "tick"
    /\ ev.wrote = <<>>
    /\ ~isSpeakingRef
    /\ ~isSpeaking

\* C18: the number of speak calls issued to the driver never exceeds the
\* number of play requests, and handling a driver error issues none.
C18_NoAutomaticRetry ==
    /\ speaks <= plays
    /\ ev.op = "error" => ~Has(synth, ev.sid)

\* C18 witness: two play requests, two speak calls, and a driver error that
\* has just been handled.
C18_Witness ==
    /\ ev.op = "error"
    /\ ev.arg = 1
    /\ plays = 2
    /\ speaks = 2

\* C19: when the driver signals the end of an utterance, the session is idle
\* afterwards: its pacing interval and its arbitration deadline are
\* cancelled, currentWordIndex is null, isSpeaking is false and no error
\* message is set.
C19_EndReturnsToIdle ==
    ev.op = "end" =>
        /\ ~sess[ev.sid].armed
        /\ ~Has(timers, DeadlineTimer(ev.sid))
        /\ currentWordIndex = NULL
        /\ ~isSpeaking
        /\ ~ev.erred
        /\ error = NoError

\* the session is idle: no pacing interval armed, no word highlighted, not
\* speaking
Idle == ~SomeArmed /\ currentWordIndex = NULL /\ ~isSpeaking

\* C20: with the pacing interval firing again and again and nothing else
\* happening but timers, a session whose pacing interval is armed becomes
\* idle.
C20_FallbackTerminates == SomeArmed ~> Idle

\* C20 witness: at half speed, a run over two words with a sentence pause
\* between them has ended in the idle state.
C20_Witness ==
    /\ Idle
    /\ ev.op = "tick"
    /\ sess[1].rate = 5
    /\ Len(Words(story)) = 2
    /\ LastChar(Words(story)[1]) = "."
    /\ log = <<0, 1, NULL>>

-----------------------------------------------------------------------------
(* Claims about the pacing of the fallback *)

\* the ticks after which word i (from 0) was on the screen
HeldTicks(i) == Cardinality({j \in 1..Len(log) : log[j] = i})

\* word i has been on the screen and a later tick has replaced it
WordLeft(i) == \E j \in 1..(Len(log) - 1) : log[j] = i /\ log[j + 1] # i

\* C21: under fallback pacing, at either rate, word i (i >= 1) stays
\* highlighted for one tick when word i-1 ends with no punctuation, for at
\* least two ticks when word i-1 ends a clause (, ; :), and for at least two
\* ticks and at least as many as after any clause when word i-1 ends a
\* sentence (. ! ?).
C21_PauseHoldsWord ==
    \A i \in 1..(Len(Words(story)) - 1) :
        WordLeft(i) =>
            LET c == LastChar(Words(story)[i])
            IN /\ c \notin {".", "!", "?", ",", ";", ":"} => HeldTicks(i) = 1
               /\ c \in {",", ";", ":"} => HeldTicks(i) >= 2
               /\ c \in {".", "!", "?"} =>
                      /\ HeldTicks(i) >= 2
                      /\ \A h \in 1..(Len(Words(story)) - 1) :
                             (WordLeft(h) /\ LastChar(Words(story)[h]) \in {",", ";", ":"})
                             => HeldTicks(i) >= HeldTicks(h)

\* the word (from 0) that holds the character at offset c of the text, NULL
\* when that character is whitespace or c is past the end
WordAt(text, c) ==
    IF c < 0 \/ c >= Len(text) \/ IsSpace(text[c + 1]) THEN NULL
    ELSE Len(Words(SubSeq(text, 1, c + 1))) - 1

\* C22: a boundary event whose character offset lies inside the k-th
\* whitespace-separated word of the story sets currentWordIndex to k, also
\* when words are separated by more than one whitespace character.
C22_BoundaryHighlightsSpokenWord ==
    (ev.op = "boundary" /\ WordAt(story, ev.arg) # NULL) =>
        /\ ev.wrote = <<WordAt(story, ev.arg)>>
        /\ currentWordIndex = WordAt(story, ev.arg)

-----------------------------------------------------------------------------
(* More claims about quiz normalisation *)

\* the raw item without its explicit index
WithoutIndex(q) == [q EXCEPT !.correctAnswerIndex = <<>>]

\* the explicit index of the item is a position of its options list and the
\* label-stripped option there is not empty
IndexResolves(q) ==
    /\ q.correctAnswerIndex # <<>>
    /\ q.correctAnswerIndex[1] >= 0
    /\ q.correctAnswerIndex[1] < Len(q.options)
    /\ stripLabel(q.options[q.correctAnswerIndex[1] + 1]) # <<>>

\* C23: when the explicit index of a raw item resolves to a non-empty
\* label-stripped option, correctAnswer is that option whatever the raw answer
\* is; otherwise (index absent, out of range, or at an empty option) the
\* normalized question is the one the item gives with its index removed.
C23_IndexWinsWhenItResolves ==
    ev.op = "generate" =>
        \A j \in 1..Len(quiz) :
            IF IndexResolves(rawQuiz[j])
            THEN quiz[j].correctAnswer =
                     stripLabel(rawQuiz[j].options[rawQuiz[j].correctAnswerIndex[1] + 1])
            ELSE quiz[j] = normalizeQuestion(WithoutIndex(rawQuiz[j]))

\* C23 witness: the index points at an option that is empty once its label
\* is stripped, the raw answer is the letter A, and the first option is the
\* correct answer.
C23_Witness ==
    /\ ev.op = "generate"
    /\ rawQuiz[1].options = <<TxtCat, TxtEmpty, TxtLabelOnly>>
    /\ rawQuiz[1].correctAnswerIndex = <<2>>
    /\ RawAnswerOf(rawQuiz[1]) = <<"A">>
    /\ quiz[1].correctAnswer = TxtCat

\* some label-stripped option of the question equals the text, or holds it
\* as a substring, letter case apart
MatchesSomeOption(qq, text) ==
    \E h \in 1..Len(qq.options) :
        includes(toLowerCase(qq.options[h]), toLowerCase(text))

\* the raw answer of the item is not empty and matches no option, neither as
\* it is nor with a label stripped from it
AnswerMatchesNothing(q, qq) ==
    /\ RawAnswerOf(q) # <<>>
    /\ ~MatchesSomeOption(qq, RawAnswerOf(q))
    /\ ~MatchesSomeOption(qq, stripLabel(RawAnswerOf(q)))

\* C24: a malformed raw item is normalized all the same.  With no raw answer
\* and no explicit index, and with a raw answer that matches no option (and
\* no index that resolves), correctAnswer is the text of option 0 when there
\* are options; with no options, correctAnswer is the empty string and the
\* options list is empty.
C24_MalformedItemDefaults ==
    ev.op = "generate" =>
        \A j \in 1..Len(quiz) :
            /\ (/\ rawQuiz[j].correctAnswerIndex = <<>>
                /\ RawAnswerOf(rawQuiz[j]) = <<>>
                /\ quiz[j].options # <<>>)
               => quiz[j].correctAnswer = quiz[j].options[1]
            /\ (/\ ~IndexResolves(rawQuiz[j])
                /\ AnswerMatchesNothing(rawQuiz[j], quiz[j])
                /\ quiz[j].options # <<>>)
               => quiz[j].correctAnswer = quiz[j].options[1]
            /\ rawQuiz[j].options = <<>>
               => (quiz[j].correctAnswer = <<>> /\ quiz[j].options = <<>>)

-----------------------------------------------------------------------------
(* Claims about playback after any sequence of events *)

\* C25: in every reachable state, when isSpeaking is false currentWordIndex
\* is null.
C25_IndexOnlyWhileSpeaking == ~isSpeaking => currentWordIndex = NULL

\* C26: at every moment at most one pacing interval is armed, and an armed
\* interval is the one held in highlightTimerRef, so that clearing through
\* the reference leaves none armed.
C26_ArmedIntervalIsReferenced ==
    \A k \in Sessions : sess[k].armed => highlightTimerRef = k

\* a stop request was made and no play request has followed it
StoppedAfterPlay == log # <<>>

\* C27: after a stop request and until the next play request no speak call is
\* issued to the driver, and no timer callback of the stopped session (delayed
\* speak, arbitration deadline, pacing tick) has an effect: none writes the
\* index, sets isSpeaking or arms a pacing interval.
C27_NothingFiresAfterStop ==
    StoppedAfterPlay =>
        /\ speaks = log[1]
        /\ ev.op \in TimerOps =>
               (ev.wrote = <<>> /\ ~isSpeaking /\ ~SomeArmed)

\* C28: an end or error callback of an utterance that a later play request
\* has cancelled changes nothing of the later session: isSpeaking and
\* currentWordIndex stay as they are and the pacing interval of the latest
\* session stays armed.
C28_StaleCallbackChangesNothing ==
    [][(/\ ev'.op \in {"end", "error"}
        /\ ev'.sid < plays
        /\ sess[ev'.sid].utt = "cancelled")
       => (/\ UNCHANGED <<isSpeaking, currentWordIndex>>
           /\ sess[plays].armed => sess'[plays].armed)]_vars

\* C29: in every reachable state currentWordIndex is null or a position of
\* the list of whitespace-separated words of the story, for every story that
\* is not the empty string and on either platform.
C29_IndexWithinWords ==
    currentWordIndex = NULL
    \/ (currentWordIndex >= 0 /\ currentWordIndex < Len(Words(story)))

-----------------------------------------------------------------------------
(* Claims about the generation request *)

\* the fetch settled with a failure: a rejection, or a response that is not ok
Failed(settled) ==
    settled.kind = "rejected"
    \/ (settled.kind = "response" /\ (settled.status < 200 \/ settled.status > 299))

\* the text a failure carries: the body of the response, or the message of
\* the rejection
FailureText(settled) ==
    IF settled.kind = "response" THEN settled.body ELSE settled.message

\* a failure that may be retried: the timeout abort, a status 429, 502, 503
\* or 504, or a text that holds temporarily, overloaded or try again
RetryableFailure(settled) ==
    /\ Failed(settled)
    /\ \/ (settled.kind = "rejected" /\ settled.name = "AbortError")
       \/ (settled.kind = "response" /\ settled.status \in {429, 502, 503, 504})
       \/ \E needle \in {TxtTemporarily, TxtOverloaded, TxtTryAgain} :
              includes(toLowerCase(FailureText(settled)), needle)

\* C30: fetchWithRetry makes at most `tries' attempts; it pauses for, and
\* makes, a further attempt only after a retryable failure and while attempts
\* are left; a failure that is not retryable, and the failure of the last
\* attempt, is thrown at once; an ok response is returned with no further
\* attempt.
C30_RetriesOnlyRetryableFailures ==
    /\ retry.attempts <= retry.tries
    /\ retry.pc = "sleeping" =>
           (RetryableFailure(retry.settled) /\ retry.attempts < retry.tries)
    /\ (retry.pc = "fetching" /\ retry.attempts > 1) =>
           RetryableFailure(retry.settled)
    /\ (/\ retry.pc \in {"sleeping", "returned", "thrown"}
        /\ Failed(retry.settled)
        /\ (~RetryableFailure(retry.settled) \/ retry.attempts = retry.tries))
       => (/\ retry.pc = "thrown"
           /\ retry.thrown.name # "undefined"
           /\ retry.thrown.status = retry.settled.status
           /\ retry.settled.kind = "rejected" => retry.thrown.name = retry.settled.name)
    /\ (retry.attempts > 0 /\ retry.settled.kind = "response" /\ resOk(retry.settled))
       => retry.pc = "returned"
    /\ retry.pc = "returned" => (retry.settled.kind = "response" /\ resOk(retry.settled))

\* C30 witness: with the default of two attempts, the first failed with
\* status 503 and the second returned an ok response.
C30_Witness ==
    /\ retry.pc = "returned"
    /\ retry.tries = DefaultTries
    /\ retry.attempts = 2
    /\ retry.lastErr.status = 503
    /\ retry.settled.status = 200

====
